---- MODULE Spec2Model ----
(***************************************************************************)
(* Model of the AWS pricing downloader.                                    *)
(*                                                                         *)
(*  - AWSPriceDownloader (src/aws_price_downloader.py): a thread pool runs *)
(*    process_download for every (service, region) combination; each       *)
(*    attempt downloads, parses and saves one pricing file; failures are   *)
(*    appended to failed_downloads under data_lock; the main thread        *)
(*    collects the futures and prints the summary (Spec, FairSpec; with a  *)
(*    KeyboardInterrupt, InterruptSpec; over shorter lists, ShortSpec).    *)
(*    HttpSpec follows one process_download call request by request,       *)
(*    through the Retry strategy of the session's adapter.                 *)
(*  - DeltaDownloader (src/delta_downloader.py): cache and delta-history   *)
(*    files of one key, written in place (DeltaSpec); compute_delta and    *)
(*    calculate_hash on pairs of documents (PureSpec); repeated appends to *)
(*    the delta history (HistorySpec); keys whose names hold an            *)
(*    underscore (WideSpec).                                               *)
(***************************************************************************)
EXTENDS Integers, Sequences, FiniteSets, TLC

\* ------------------------------------------------------------------ bounds
\* Number of entries of SERVICES that the model runs (the source lists 12).
NumServices == 2
\* max_retries is a constructor argument; the model draws it from 0..MaxRetriesBound.
MaxRetriesBound == 2
\* max_workers is a constructor argument; the model draws it from 1..MaxWorkersBound.
MaxWorkersBound == 2

\* --------------------------------------------------------------- constants
\* AWSPriceDownloader.REGIONS: one region is enabled in the source.
REGIONS == <<"ap-south-1">>
\* AWSPriceDownloader.SERVICES, abstracted to indices.
SERVICES == [i \in 1..NumServices |-> i]

\* combinations = [(service, region) for region in REGIONS for service in SERVICES]
combinations ==
    [k \in 1..(Len(REGIONS) * Len(SERVICES)) |->
        <<SERVICES[((k - 1) % Len(SERVICES)) + 1],
          REGIONS[((k - 1) \div Len(SERVICES)) + 1]>>]

Tasks == {combinations[k] : k \in 1..Len(combinations)}
total_combinations == Len(combinations)

NoTask == <<0, "none">>
\* A path of the file system: no file, or a file with the chunks written so far.
Absent == [exists |-> FALSE, content |-> <<>>]
File(c) == [exists |-> TRUE, content |-> c]

\* save_pricing_data: os.path.join(base_dir, region, f"{service}_pricing.json")
\* and that path + '.tmp', as the sequences of their parts.
filepath(t) == <<t[2], t[1], "pricing.json">>
temp_filepath(t) == filepath(t) \o <<".tmp">>

\* A JSON document as json.dump writes it: a sequence of chunks handed to
\* f.write one after the other.  Documents: the one a previous run left
\* ("old") and the one the server now returns ("new") for the task.
Docs == {"old", "new"}
Serialize(t, d) == << [key |-> t, doc |-> d, part |-> 1],
                      [key |-> t, doc |-> d, part |-> 2] >>
\* len(content): the bytes of the response body that carries document d.
BodySize(t, d) == 2 * t[1]

\* The file at `path` holds a complete JSON document of task t.
IsComplete(t, f) == f.exists /\ \E d \in Docs : f.content = Serialize(t, d)

VARIABLES
    max_retries,            \* self.max_retries
    max_workers,            \* self.max_workers
    run_combinations,       \* local `combinations` of download_all_pricing
    failed_downloads,       \* self.failed_downloads
    total_data_downloaded,  \* self.total_data_downloaded
    data_lock,              \* self.data_lock: the task whose thread holds it
    mainpc,                 \* position of download_all_pricing
    submitted,              \* number of combinations handed to executor.submit
    queue,                  \* the executor's work queue
    pc,                     \* per task: position of its worker
    attempt,                \* per task: loop variable of process_download
    data,                   \* per task: the parsed document of the current attempt
    pending,                \* per task: error message about to be recorded
    result,                 \* per task: the future's result
    files,                  \* per task: content of <base>/<region>/<service>_pricing.json
    tmpfiles,               \* per task: content of the same path + '.tmp'
    successful_downloads,   \* local of download_all_pricing
    pbar,                   \* tqdm counter
    collected,              \* futures already yielded by as_completed
    summary,                \* what _show_summary printed
    failedFile,             \* content of <base>/failed_downloads.json
    outcomes,               \* per task: history: [n: attempts started, last: outcome
                            \*   of the latest attempt, kinds: outcomes seen]
    sleeps,                 \* per task: history of time.sleep durations
    \* DeltaDownloader
    dfs,                    \* cache_dir: path -> file
    calls,                  \* number of process_download calls so far
    dpc,                    \* position of the caller in DeltaDownloader.process_download
    dkey,                   \* its (service, region)
    dlocal,                 \* its locals: new_data, new_hash, delta, history
    dret,                   \* what the latest call returned
    \* compute_delta and calculate_hash called on their own
    p_old,                  \* the old_data argument
    p_new,                  \* the new_data argument
    p_delta,                \* what compute_delta(p_old, p_new) returned
    p_hash,                 \* what calculate_hash returned for p_old and p_new
    ppc,                    \* which of the two calls have been made
    \* one process_download call, seen at the level of HTTP requests
    hpc,                    \* where the call is
    h_attempt,              \* `attempt` of the for loop
    h_total,                \* Retry.total left inside the current session.get
    h_sent,                 \* HTTP requests sent so far by the call
    h_status                \* what came back for the latest request

schedVars == << max_retries, max_workers, run_combinations, failed_downloads,
               total_data_downloaded, data_lock, mainpc, submitted, queue, pc,
               attempt, data, pending, result, files, tmpfiles,
               successful_downloads, pbar, collected, summary, failedFile,
               outcomes, sleeps >>
deltaVars == << dfs, calls, dpc, dkey, dlocal, dret >>
pureVars == << p_old, p_new, p_delta, p_hash, ppc >>
httpVars == << hpc, h_attempt, h_total, h_sent, h_status >>
vars == << schedVars, deltaVars, pureVars, httpVars >>

NoSummary == [attempted |-> -1, succeeded |-> -1, failed |-> -1, bytes |-> -1]

\* ------------------------------------------------------------------- Init
\* What an earlier run left at the final path of task t: a complete older
\* document for the odd services, nothing for the even ones.
PriorFile(t) == IF t[1] % 2 = 1 THEN File(Serialize(t, "old")) ELSE Absent

\* State after AWSPriceDownloader.__init__, whatever lists the class holds.
SchedStart ==
    /\ max_retries \in 0..MaxRetriesBound
    /\ max_workers \in 1..MaxWorkersBound
    /\ failed_downloads = <<>>
    /\ total_data_downloaded = 0
    /\ data_lock = NoTask
    /\ mainpc = "submit"
    /\ submitted = 0
    /\ queue = <<>>
    /\ pc = [t \in Tasks |-> "new"]
    /\ attempt = [t \in Tasks |-> 0]
    /\ data = [t \in Tasks |-> "none"]
    /\ pending = [t \in Tasks |-> "none"]
    /\ result = [t \in Tasks |-> "none"]
    /\ files = [t \in Tasks |-> PriorFile(t)]
    /\ tmpfiles = [t \in Tasks |-> Absent]
    /\ successful_downloads = 0
    /\ pbar = 0
    /\ collected = {}
    /\ summary = NoSummary
    /\ failedFile = Absent
    /\ outcomes = [t \in Tasks |-> [n |-> 0, last |-> "none", kinds |-> {}]]
    /\ sleeps = [t \in Tasks |-> <<>>]

\* The run covers the cross product of SERVICES and REGIONS.
SchedInit == SchedStart /\ run_combinations = combinations

\* ------------------------------------------------- DeltaDownloader: data
\* Number of DeltaDownloader.process_download calls the model makes.
MaxCalls == 2
\* `history = history[-10:]`
HistoryCap == 10

\* (service, region) pairs given to DeltaDownloader; a name is the sequence
\* of its parts between underscores.
DKeys == { << <<"AmazonEC2">>, <<"ap-south-1">> >>,
           << <<"AmazonS3">>, <<"ap-south-1">> >> }
NoKey == << <<>>, <<>> >>

\* os.path.join(cache_dir, f"{service}_{region}_cache.json")
get_cache_path(k) == k[1] \o k[2] \o <<"cache.json">>
\* os.path.join(cache_dir, f"{service}_{region}_delta_history.json")
get_delta_path(k) == k[1] \o k[2] \o <<"delta", "history.json">>
DPaths == {get_cache_path(k) : k \in DKeys} \cup {get_delta_path(k) : k \in DKeys}

\* A pricing document is a dict in insertion order, at every level: `keys`
\* is the order of its top-level keys, `products` a sequence of
\* (product id, record) entries with distinct ids, and a product record a
\* sequence of (attribute, value) entries with distinct attributes.
Attr(a, v) == [key |-> a, val |-> v]
Product(i, r) == [id |-> i, rec |-> r]
PricingDoc(ks, v, ps) == [keys |-> ks, version |-> v, products |-> ps]
\* None, and the `{'products': {}}` that stands for a missing cache.
NoneDoc == [keys |-> <<>>, version |-> "None", products |-> <<>>]
EmptyProducts == [keys |-> <<"products">>, version |-> "absent", products |-> <<>>]
\* The two top-level key orders, and three product records: RecX and RecXr
\* are the same dict built in two orders, RecY has another price.
KeysVP == <<"version", "products">>
KeysPV == <<"products", "version">>
RecX == <<Attr(1, 1), Attr(2, 1)>>
RecXr == <<Attr(2, 1), Attr(1, 1)>>
RecY == <<Attr(1, 2), Attr(2, 1)>>
\* The documents the upstream serves in the model.
InputDocs ==
    { PricingDoc(KeysVP, "v1", <<>>),
      PricingDoc(KeysVP, "v1", <<Product(1, RecX)>>),
      PricingDoc(KeysVP, "v1", <<Product(1, RecX), Product(2, RecX)>>),
      PricingDoc(KeysVP, "v1", <<Product(2, RecX), Product(1, RecX)>>),
      PricingDoc(KeysVP, "v1", <<Product(1, RecY), Product(2, RecX)>>),
      PricingDoc(KeysVP, "v2", <<Product(1, RecX), Product(2, RecX)>>) }

Range(seq) == {seq[j] : j \in 1..Len(seq)}

\* dict == dict in Python: the same keys with equal values, in any order.
DictEq(r1, r2) == Len(r1) = Len(r2) /\ Range(r1) = Range(r2)

\* json.dumps(..., sort_keys=True) writes the entries of every dict in
\* ascending key order: the products by id,
RECURSIVE SortedById(_)
SortedById(ps) ==
    IF ps = <<>> THEN <<>>
    ELSE LET m == CHOOSE i \in 1..Len(ps) :
                     \A j \in 1..Len(ps) : ps[i].id <= ps[j].id
         IN <<ps[m]>> \o SortedById([j \in 1..(Len(ps) - 1) |->
                                        IF j < m THEN ps[j] ELSE ps[j + 1]])

\* the attributes of a product record by name,
RECURSIVE SortedByKey(_)
SortedByKey(r) ==
    IF r = <<>> THEN <<>>
    ELSE LET m == CHOOSE i \in 1..Len(r) :
                     \A j \in 1..Len(r) : r[i].key <= r[j].key
         IN <<r[m]>> \o SortedByKey([j \in 1..(Len(r) - 1) |->
                                        IF j < m THEN r[j] ELSE r[j + 1]])

\* and the top-level keys ("products" sorts before "version").
SortedKeys(ks) == SelectSeq(KeysPV, LAMBDA k : k \in Range(ks))

\* Mutant of calculate_hash: json.dumps without sort_keys.
calculate_hashUnsorted(d) == d

\* calculate_hash: the md5 of the canonical text, which the model takes to
\* be free of collisions: the canonical text itself.
calculate_hash(d) ==
    [keys |-> SortedKeys(d.keys),
     version |-> d.version,
     products |-> SortedById([j \in 1..Len(d.products) |->
                     Product(d.products[j].id, SortedByKey(d.products[j].rec))])]
NoneHash == [keys |-> <<>>, version |-> "None", products |-> <<>>]

\* Mutant of HasId: no product id is ever found in the other mapping.
HasIdNever(ps, i) == FALSE

HasId(ps, i) == \E j \in 1..Len(ps) : ps[j].id = i
RecOf(ps, i) == ps[CHOOSE j \in 1..Len(ps) : ps[j].id = i].rec

\* Mutant of compute_delta: a product in both mappings is always reported
\* as modified.
compute_deltaAlwaysModified(old_data, new_data) ==
    LET old_products == old_data.products
        new_products == new_data.products
    IN [added |-> SelectSeq(new_products,
                     LAMBDA e : ~HasId(old_products, e.id)),
        modified |->
            LET changed == SelectSeq(new_products,
                     LAMBDA e : HasId(old_products, e.id))
            IN [j \in 1..Len(changed) |->
                   [id |-> changed[j].id,
                    old |-> RecOf(old_products, changed[j].id),
                    new |-> changed[j].rec]],
        removed |-> SelectSeq(old_products,
                     LAMBDA e : ~HasId(new_products, e.id))]

\* Mutant of compute_delta: a removed product is reported with the record
\* of the first new product.
compute_deltaRemovedNew(old_data, new_data) ==
    LET old_products == old_data.products
        new_products == new_data.products
    IN [added |-> SelectSeq(new_products,
                     LAMBDA e : ~HasId(old_products, e.id)),
        modified |->
            LET changed == SelectSeq(new_products,
                     LAMBDA e : /\ HasId(old_products, e.id)
                                /\ ~DictEq(e.rec, RecOf(old_products, e.id)))
            IN [j \in 1..Len(changed) |->
                   [id |-> changed[j].id,
                    old |-> RecOf(old_products, changed[j].id),
                    new |-> changed[j].rec]],
        removed |->
            LET gone == SelectSeq(old_products,
                     LAMBDA e : ~HasId(new_products, e.id))
            IN [j \in 1..Len(gone) |->
                   IF new_products = <<>> THEN gone[j]
                   ELSE Product(gone[j].id, new_products[1].rec)]]

\* Mutant of compute_delta: the loop over the old products is left out,
\* `removed` stays empty.
compute_deltaNoRemoved(old_data, new_data) ==
    LET old_products == old_data.products
        new_products == new_data.products
    IN [added |-> SelectSeq(new_products,
                     LAMBDA e : ~HasId(old_products, e.id)),
        modified |->
            LET changed == SelectSeq(new_products,
                     LAMBDA e : /\ HasId(old_products, e.id)
                                /\ ~DictEq(e.rec, RecOf(old_products, e.id)))
            IN [j \in 1..Len(changed) |->
                   [id |-> changed[j].id,
                    old |-> RecOf(old_products, changed[j].id),
                    new |-> changed[j].rec]],
        removed |-> <<>>]

\* compute_delta: added and modified follow the order of the new products,
\* removed the order of the old ones.
compute_delta(old_data, new_data) ==
    LET old_products == old_data.products
        new_products == new_data.products
    IN [added |-> SelectSeq(new_products,
                     LAMBDA e : ~HasId(old_products, e.id)),
        modified |->
            LET changed == SelectSeq(new_products,
                     LAMBDA e : /\ HasId(old_products, e.id)
                                /\ ~DictEq(e.rec, RecOf(old_products, e.id)))
            IN [j \in 1..Len(changed) |->
                   [id |-> changed[j].id,
                    old |-> RecOf(old_products, changed[j].id),
                    new |-> changed[j].rec]],
        removed |-> SelectSeq(old_products,
                     LAMBDA e : ~HasId(new_products, e.id))]
EmptyDelta == [added |-> <<>>, modified |-> <<>>, removed |-> <<>>]

\* json.dump(obj, f, indent=2): the chunks handed to f.write, in order.
JsonChunks(obj) == << [obj |-> obj, part |-> 1], [obj |-> obj, part |-> 2] >>
\* json.load succeeds on a file that holds all chunks of one object.
Parses(f) == f.exists /\ Len(f.content) = 2 /\ f.content = JsonChunks(f.content[1].obj)
Parsed(f) == f.content[1].obj

NoLocal == [new_data |-> NoneDoc, new_hash |-> NoneHash, delta |-> EmptyDelta,
            history |-> <<>>, cache_before |-> Absent, hist_before |-> Absent]

\* State after DeltaDownloader.__init__ on a fresh cache directory.
DeltaIdle ==
    /\ dfs = [p \in DPaths |-> Absent]
    /\ calls = 0
    /\ dpc = "idle"
    /\ dkey = NoKey
    /\ dlocal = NoLocal
    /\ dret = [has_changes |-> FALSE, delta |-> EmptyDelta]

\* No call of compute_delta or calculate_hash on its own is under way.
PureIdle ==
    /\ p_old = NoneDoc
    /\ p_new = NoneDoc
    /\ p_delta = EmptyDelta
    /\ p_hash = <<NoneHash, NoneHash>>
    /\ ppc = "none"

\* _create_session: Retry(total=3, ..., status_forcelist=[500, 502, 503, 504])
RetryTotal == 3
status_forcelist == {"500", "502", "503", "504"}
\* What one HTTP request can come back with: a status code, or no response
\* within timeout=30.
Responses == {"200", "404"} \cup status_forcelist \cup {"timeout"}

\* process_download has not been entered at the level of HTTP requests.
HttpIdle ==
    /\ hpc = "loop"
    /\ h_attempt = 0
    /\ h_total = 0
    /\ h_sent = 0
    /\ h_status = "none"

Init == SchedInit /\ DeltaIdle /\ PureIdle /\ HttpIdle

\* The same, with one configuration of the downloader.
DeltaInit ==
    /\ SchedInit
    /\ max_retries = MaxRetriesBound
    /\ max_workers = MaxWorkersBound
    /\ DeltaIdle
    /\ PureIdle
    /\ HttpIdle

\* ---------------------------------------------------- ThreadPoolExecutor
Running == {t \in Tasks : pc[t] \notin {"new", "queued", "done"}}

\* Mutant of LoopNext: the loop bound is off by one.
LoopNextOffByOne(t, n) ==
    IF n <= max_retries
    THEN /\ pc' = [pc EXCEPT ![t] = "attempt"]
         /\ result' = result
    ELSE /\ pc' = [pc EXCEPT ![t] = "done"]
         /\ result' = [result EXCEPT ![t] = "false"]

\* `for attempt in range(self.max_retries)`: the next iteration, or the
\* `return False, 0` after the loop.
LoopNext(t, n) ==
    IF n < max_retries
    THEN /\ pc' = [pc EXCEPT ![t] = "attempt"]
         /\ result' = result
    ELSE /\ pc' = [pc EXCEPT ![t] = "done"]
         /\ result' = [result EXCEPT ![t] = "false"]

\* Mutant of Submit: the first combination is submitted every time.
SubmitFirstAgain ==
    /\ mainpc = "submit"
    /\ submitted < Len(run_combinations)
    /\ submitted' = submitted + 1
    /\ queue' = Append(queue, run_combinations[1])
    /\ pc' = [pc EXCEPT ![run_combinations[1]] = "queued"]
    /\ UNCHANGED << httpVars, deltaVars, pureVars, max_retries, max_workers, run_combinations,
                    failed_downloads,
                    total_data_downloaded, data_lock, mainpc, attempt, data,
                    pending, result, files, tmpfiles, successful_downloads,
                    pbar, collected, summary, failedFile, outcomes, sleeps >>

\* executor.submit(self.process_download, service, region), in list order.
Submit ==
    /\ mainpc = "submit"
    /\ submitted < Len(run_combinations)
    /\ submitted' = submitted + 1
    /\ queue' = Append(queue, run_combinations[submitted + 1])
    /\ pc' = [pc EXCEPT ![run_combinations[submitted + 1]] = "queued"]
    /\ UNCHANGED << httpVars, deltaVars, pureVars, max_retries, max_workers, run_combinations,
                    failed_downloads,
                    total_data_downloaded, data_lock, mainpc, attempt, data,
                    pending, result, files, tmpfiles, successful_downloads,
                    pbar, collected, summary, failedFile, outcomes, sleeps >>

\* The dict comprehension is complete; the main thread enters as_completed.
FinishSubmit ==
    /\ mainpc = "submit"
    /\ submitted = Len(run_combinations)
    /\ mainpc' = "collect"
    /\ UNCHANGED << httpVars, deltaVars, pureVars, max_retries, max_workers, run_combinations,
                    failed_downloads,
                    total_data_downloaded, data_lock, submitted, queue, pc,
                    attempt, data, pending, result, files, tmpfiles,
                    successful_downloads, pbar, collected, summary,
                    failedFile, outcomes, sleeps >>

\* An idle pool thread takes the oldest work item and enters process_download.
StartTask ==
    /\ queue # <<>>
    /\ Cardinality(Running) < max_workers
    /\ queue' = Tail(queue)
    /\ attempt' = [attempt EXCEPT ![Head(queue)] = 0]
    /\ LoopNext(Head(queue), 0)
    /\ UNCHANGED << httpVars, deltaVars, pureVars, max_retries, max_workers, run_combinations,
                    failed_downloads,
                    total_data_downloaded, data_lock, mainpc, submitted, data,
                    pending, files, tmpfiles, successful_downloads, pbar,
                    collected, summary, failedFile, outcomes, sleeps >>

\* ------------------------------------------- download_pricing_data: fetch
cfgVars == << max_retries, max_workers, run_combinations >>
mainVars == << mainpc, submitted, queue, successful_downloads, pbar,
               collected, summary, failedFile >>
lockVars == << failed_downloads, total_data_downloaded, data_lock >>
fsVars == << files, tmpfiles >>

\* History of a task after an attempt began and ended as `kind` ("parsed":
\* the body was fetched and parsed, and the save began).
Observe(h, kind) ==
    [n |-> h.n + 1, last |-> kind,
     kinds |-> IF kind = "parsed" THEN h.kinds ELSE h.kinds \cup {kind}]

RECURSIVE Pow2(_)
Pow2(n) == IF n = 0 THEN 1 ELSE 2 * Pow2(n - 1)

\* session.get, raise_for_status, iter_content or the decoding of the body
\* raises (connection error, timeout, HTTP error status, undecodable bytes):
\* the outer `except Exception` records the failure.
FetchRaises(t) ==
    /\ pc[t] = "attempt"
    /\ pc' = [pc EXCEPT ![t] = "rec_wait"]
    /\ pending' = [pending EXCEPT ![t] = "transient"]
    /\ outcomes' = [outcomes EXCEPT ![t] = Observe(@, "transient")]
    /\ UNCHANGED << httpVars, deltaVars, pureVars, cfgVars, mainVars, lockVars, fsVars, attempt, data,
                    result, sleeps >>

\* Mutant of FetchMalformed: the bytes of the body that did not parse are
\* added to the total.
FetchMalformedCounted(t) ==
    /\ pc[t] = "attempt"
    /\ pc' = [pc EXCEPT ![t] = "sleep"]
    /\ outcomes' = [outcomes EXCEPT ![t] = Observe(@, "malformed")]
    /\ total_data_downloaded' = total_data_downloaded + BodySize(t, "new")
    /\ UNCHANGED << httpVars, deltaVars, pureVars, cfgVars, mainVars, fsVars, failed_downloads,
                    data_lock, attempt, data, pending, result, sleeps >>

\* json.loads raises JSONDecodeError: the inner handler logs it and the
\* function falls through to `return False, downloaded_size`.
FetchMalformed(t) ==
    /\ pc[t] = "attempt"
    /\ pc' = [pc EXCEPT ![t] = "sleep"]
    /\ outcomes' = [outcomes EXCEPT ![t] = Observe(@, "malformed")]
    /\ UNCHANGED << httpVars, deltaVars, pureVars, cfgVars, mainVars, lockVars, fsVars, attempt, data,
                    pending, result, sleeps >>

\* The body parses to an empty document: save_pricing_data returns False at
\* `if not data`, and download_pricing_data returns False.
FetchEmpty(t) ==
    /\ pc[t] = "attempt"
    /\ pc' = [pc EXCEPT ![t] = "sleep"]
    /\ outcomes' = [outcomes EXCEPT ![t] = Observe(@, "empty")]
    /\ UNCHANGED << httpVars, deltaVars, pureVars, cfgVars, mainVars, lockVars, fsVars, attempt, data,
                    pending, result, sleeps >>

\* The body parses to a document: save_pricing_data enters its try block.
FetchParsed(t) ==
    /\ pc[t] = "attempt"
    /\ pc' = [pc EXCEPT ![t] = "save_open"]
    /\ data' = [data EXCEPT ![t] = "new"]
    /\ outcomes' = [outcomes EXCEPT ![t] = Observe(@, "parsed")]
    /\ UNCHANGED << httpVars, deltaVars, pureVars, cfgVars, mainVars, lockVars, fsVars, attempt, pending,
                    result, sleeps >>

\* ------------------------------------------------------ save_pricing_data
\* Mutant of TmpOpen: the final path is opened for writing, not the
\* temporary one.
TmpOpenInPlace(t) ==
    /\ pc[t] = "save_open"
    /\ files' = [files EXCEPT ![t] = File(<<>>)]
    /\ pc' = [pc EXCEPT ![t] = "save_write"]
    /\ UNCHANGED << httpVars, deltaVars, pureVars, cfgVars, mainVars, lockVars, tmpfiles, attempt,
                    data, pending, result, outcomes, sleeps >>

\* open(temp_filepath, 'w'): the temporary file exists and is empty.
TmpOpen(t) ==
    /\ pc[t] = "save_open"
    /\ tmpfiles' = [tmpfiles EXCEPT ![t] = File(<<>>)]
    /\ pc' = [pc EXCEPT ![t] = "save_write"]
    /\ UNCHANGED << httpVars, deltaVars, pureVars, cfgVars, mainVars, lockVars, files, attempt, data,
                    pending, result, outcomes, sleeps >>

\* json.dump(data, f): the next chunk reaches the temporary file; after the
\* last one the file is closed.
TmpWrite(t) ==
    /\ pc[t] = "save_write"
    /\ LET doc == Serialize(t, data[t])
           n == Len(tmpfiles[t].content) + 1
       IN /\ tmpfiles' = [tmpfiles EXCEPT ![t] = File(Append(@.content, doc[n]))]
          /\ pc' = [pc EXCEPT ![t] =
                      IF n = Len(doc) THEN "save_replace" ELSE "save_write"]
    /\ UNCHANGED << httpVars, deltaVars, pureVars, cfgVars, mainVars, lockVars, files, attempt, data,
                    pending, result, outcomes, sleeps >>

\* os.replace(temp_filepath, filepath): one step puts the temporary file's
\* content at the final path and removes the temporary name.  The function
\* then logs the size of the file it just put there, returns True, and the
\* caller goes for the lock.
Replace(t) ==
    /\ pc[t] = "save_replace"
    /\ files' = [files EXCEPT ![t] = tmpfiles[t]]
    /\ tmpfiles' = [tmpfiles EXCEPT ![t] = Absent]
    /\ pc' = [pc EXCEPT ![t] = "bytes_wait"]
    /\ UNCHANGED << httpVars, deltaVars, pureVars, cfgVars, mainVars, lockVars, attempt, data, pending,
                    result, outcomes, sleeps >>

\* Mutant of SaveFails: the exception is swallowed and the save returns True.
SaveFailsUnreported(t) ==
    /\ pc[t] \in {"save_open", "save_write", "save_replace"}
    /\ pc' = [pc EXCEPT ![t] = "bytes_wait"]
    /\ outcomes' = [outcomes EXCEPT ![t] =
                      [@ EXCEPT !.last = "saveerr", !.kinds = @ \cup {"saveerr"}]]
    /\ UNCHANGED << httpVars, deltaVars, pureVars, cfgVars, mainVars, lockVars, fsVars, attempt,
                    data, pending, result, sleeps >>

\* open, a write or os.replace raises: `except Exception` records
\* "Save error: ..." and save_pricing_data returns False.
SaveFails(t) ==
    /\ pc[t] \in {"save_open", "save_write", "save_replace"}
    /\ pc' = [pc EXCEPT ![t] = "rec_wait"]
    /\ pending' = [pending EXCEPT ![t] = "Save error"]
    /\ outcomes' = [outcomes EXCEPT ![t] =
                      [@ EXCEPT !.last = "saveerr", !.kinds = @ \cup {"saveerr"}]]
    /\ UNCHANGED << httpVars, deltaVars, pureVars, cfgVars, mainVars, lockVars, fsVars, attempt, data,
                    result, sleeps >>

\* ---------------------------------------------------------------- data_lock
\* Mutant of Acquire: the critical section is entered without waiting for
\* the lock.
AcquireNoWait(t) ==
    /\ pc[t] \in {"rec_wait", "bytes_wait"}
    /\ data_lock' = t
    /\ pc' = [pc EXCEPT ![t] = IF pc[t] = "rec_wait" THEN "rec_locked"
                                                     ELSE "bytes_locked"]
    /\ UNCHANGED << httpVars, deltaVars, pureVars, cfgVars, mainVars, fsVars, failed_downloads,
                    total_data_downloaded, attempt, data, pending, result,
                    outcomes, sleeps >>

\* `with self.data_lock:` entered, in _record_failure or before the byte count.
Acquire(t) ==
    /\ pc[t] \in {"rec_wait", "bytes_wait"}
    /\ data_lock = NoTask
    /\ data_lock' = t
    /\ pc' = [pc EXCEPT ![t] = IF pc[t] = "rec_wait" THEN "rec_locked"
                                                     ELSE "bytes_locked"]
    /\ UNCHANGED << httpVars, deltaVars, pureVars, cfgVars, mainVars, fsVars, failed_downloads,
                    total_data_downloaded, attempt, data, pending, result,
                    outcomes, sleeps >>

\* _record_failure: append the record (its timestamp is left out) and leave
\* the lock.  Every caller is followed by download_pricing_data returning
\* False.
RecordFailure(t) ==
    /\ pc[t] = "rec_locked"
    /\ failed_downloads' = Append(failed_downloads,
          [service |-> t[1], region |-> t[2], error |-> pending[t]])
    /\ data_lock' = NoTask
    /\ pending' = [pending EXCEPT ![t] = "none"]
    /\ pc' = [pc EXCEPT ![t] = "sleep"]
    /\ UNCHANGED << httpVars, deltaVars, pureVars, cfgVars, mainVars, fsVars, total_data_downloaded, attempt,
                    data, result, outcomes, sleeps >>

\* self.total_data_downloaded += downloaded_size; return True: the success
\* path of download_pricing_data, and process_download returns (True, size).
AddBytes(t) ==
    /\ pc[t] = "bytes_locked"
    /\ total_data_downloaded' = total_data_downloaded + BodySize(t, data[t])
    /\ data_lock' = NoTask
    /\ pc' = [pc EXCEPT ![t] = "done"]
    /\ result' = [result EXCEPT ![t] = "true"]
    /\ outcomes' = [outcomes EXCEPT ![t] = [@ EXCEPT !.last = "ok"]]
    /\ UNCHANGED << httpVars, deltaVars, pureVars, cfgVars, mainVars, fsVars, failed_downloads, attempt,
                    data, pending, sleeps >>

\* ------------------------------------------------------- process_download
\* download_pricing_data returned False: time.sleep(2 ** attempt), then the
\* loop goes on or ends.  (The `except` clause of process_download is never
\* entered: download_pricing_data catches every Exception itself.)
Sleep(t) ==
    /\ pc[t] = "sleep"
    /\ sleeps' = [sleeps EXCEPT ![t] = Append(@, Pow2(attempt[t]))]
    /\ attempt' = [attempt EXCEPT ![t] = @ + 1]
    /\ LoopNext(t, attempt[t] + 1)
    /\ UNCHANGED << httpVars, deltaVars, pureVars, cfgVars, mainVars, lockVars, fsVars, data, pending,
                    outcomes >>

\* ----------------------------------------------------- download_all_pricing
\* Mutant of Collect: the result of a failed task is raised out of the
\* loop, and download_all_pricing ends without a summary.
CollectAbort(t) ==
    /\ mainpc = "collect"
    /\ pc[t] = "done"
    /\ t \notin collected
    /\ IF result[t] = "true"
       THEN /\ collected' = collected \cup {t}
            /\ successful_downloads' = successful_downloads + 1
            /\ pbar' = pbar + 1
            /\ mainpc' = mainpc
       ELSE /\ mainpc' = "aborted"
            /\ UNCHANGED << collected, successful_downloads, pbar >>
    /\ UNCHANGED << httpVars, deltaVars, pureVars, cfgVars, lockVars, fsVars, submitted, queue, pc,
                    attempt, data, pending, result, summary, failedFile,
                    outcomes, sleeps >>

\* One iteration of `for future in as_completed(...)`: count a success,
\* then pbar.update(1) in the finally clause.
Collect(t) ==
    /\ mainpc = "collect"
    /\ pc[t] = "done"
    /\ t \notin collected
    /\ collected' = collected \cup {t}
    /\ successful_downloads' =
          IF result[t] = "true" THEN successful_downloads + 1
                                ELSE successful_downloads
    /\ pbar' = pbar + 1
    /\ UNCHANGED << httpVars, deltaVars, pureVars, cfgVars, lockVars, fsVars, mainpc, submitted, queue, pc,
                    attempt, data, pending, result, summary, failedFile,
                    outcomes, sleeps >>

\* Mutant of ShowSummary: the summary does not wait for the futures.
ShowSummaryEarly ==
    /\ mainpc = "collect"
    /\ mainpc' = "end"
    /\ summary' = [attempted |-> Len(run_combinations),
                   succeeded |-> successful_downloads,
                   failed |-> Len(failed_downloads),
                   bytes |-> total_data_downloaded]
    /\ IF failed_downloads = <<>>
       THEN failedFile' = failedFile
       ELSE \/ failedFile' = File(failed_downloads)
            \/ failedFile' = failedFile
    /\ UNCHANGED << httpVars, deltaVars, pureVars, cfgVars, lockVars, fsVars, submitted, queue, pc, attempt,
                    data, pending, result, successful_downloads, pbar,
                    collected, outcomes, sleeps >>

\* Mutant of ShowSummary: failed_downloads.json is written whether or not
\* there are failures.
ShowSummaryAlwaysWrites ==
    /\ mainpc = "collect"
    /\ collected = Range(run_combinations)
    /\ mainpc' = "end"
    /\ summary' = [attempted |-> Len(run_combinations),
                   succeeded |-> successful_downloads,
                   failed |-> Len(failed_downloads),
                   bytes |-> total_data_downloaded]
    /\ \/ failedFile' = File(failed_downloads)
       \/ failedFile' = failedFile
    /\ UNCHANGED << httpVars, deltaVars, pureVars, cfgVars, lockVars, fsVars, submitted, queue, pc, attempt,
                    data, pending, result, successful_downloads, pbar,
                    collected, outcomes, sleeps >>

\* The executor is left once every future was yielded; _show_summary prints
\* the counts and, if there are failures, writes failed_downloads.json (an
\* error while writing is logged and the file is left as it was).
ShowSummary ==
    /\ mainpc = "collect"
    /\ collected = Range(run_combinations)
    /\ mainpc' = "end"
    /\ summary' = [attempted |-> Len(run_combinations),
                   succeeded |-> successful_downloads,
                   failed |-> Len(failed_downloads),
                   bytes |-> total_data_downloaded]
    /\ IF failed_downloads = <<>>
       THEN failedFile' = failedFile
       ELSE \/ failedFile' = File(failed_downloads)
            \/ failedFile' = failedFile
    /\ UNCHANGED << httpVars, deltaVars, pureVars, cfgVars, lockVars, fsVars, submitted, queue, pc, attempt,
                    data, pending, result, successful_downloads, pbar,
                    collected, outcomes, sleeps >>

WorkerStep(t) ==
    \/ FetchRaises(t) \/ FetchMalformed(t) \/ FetchEmpty(t) \/ FetchParsed(t)
    \/ TmpOpen(t) \/ TmpWrite(t) \/ Replace(t) \/ SaveFails(t)
    \/ Acquire(t) \/ RecordFailure(t) \/ AddBytes(t) \/ Sleep(t)

MainStep == Submit \/ FinishSubmit \/ (\E t \in Tasks : Collect(t)) \/ ShowSummary

Next ==
    \/ Submit
    \/ FinishSubmit
    \/ StartTask
    \/ \E t \in Tasks : FetchRaises(t)
    \/ \E t \in Tasks : FetchMalformed(t)
    \/ \E t \in Tasks : FetchEmpty(t)
    \/ \E t \in Tasks : FetchParsed(t)
    \/ \E t \in Tasks : TmpOpen(t)
    \/ \E t \in Tasks : TmpWrite(t)
    \/ \E t \in Tasks : Replace(t)
    \/ \E t \in Tasks : SaveFails(t)
    \/ \E t \in Tasks : Acquire(t)
    \/ \E t \in Tasks : RecordFailure(t)
    \/ \E t \in Tasks : AddBytes(t)
    \/ \E t \in Tasks : Sleep(t)
    \/ \E t \in Tasks : Collect(t)
    \/ ShowSummary

Spec == Init /\ [][Next]_vars

\* The pool threads and the main thread keep running: the operating system
\* schedules every thread, and each blocking call ends (timeout=30, sleep).
FairSpec ==
    /\ Spec
    /\ WF_vars(StartTask)
    /\ \A t \in Tasks : WF_vars(WorkerStep(t))
    /\ WF_vars(MainStep)

\* ------------------------------------------------- shorter SERVICES lists
\* A run of a downloader whose SERVICES list holds only the first n entries,
\* none included.
ShortInit ==
    /\ SchedStart
    /\ run_combinations \in
          {SubSeq(combinations, 1, n) : n \in 0..Len(combinations)}
    /\ DeltaIdle
    /\ PureIdle
    /\ HttpIdle

ShortSpec == ShortInit /\ [][Next]_vars

\* The threads of ShortSpec scheduled as in FairSpec.
ShortFairSpec ==
    /\ ShortSpec
    /\ WF_vars(StartTask)
    /\ \A t \in Tasks : WF_vars(WorkerStep(t))
    /\ WF_vars(MainStep)

\* ------------------------------------------------------ KeyboardInterrupt
\* The operator interrupts the run: KeyboardInterrupt is raised in the main
\* thread inside the `with ThreadPoolExecutor` block, whose __exit__ calls
\* shutdown(wait=True).  The pool threads are not told anything: they keep
\* taking work items from the queue.
Interrupt ==
    /\ mainpc \in {"submit", "collect"}
    /\ mainpc' = "shutdown"
    /\ UNCHANGED << httpVars, deltaVars, pureVars, cfgVars, lockVars, fsVars, submitted, queue, pc,
                    attempt, data, pending, result, successful_downloads,
                    pbar, collected, summary, failedFile, outcomes, sleeps >>

\* shutdown(wait=True) returns once the queue is empty and every pool
\* thread has ended; the exception reaches main(), which prints a message
\* and calls sys.exit(1).  _show_summary is not called.
ExitInterrupted ==
    /\ mainpc = "shutdown"
    /\ queue = <<>>
    /\ Running = {}
    /\ mainpc' = "exit"
    /\ UNCHANGED << httpVars, deltaVars, pureVars, cfgVars, lockVars, fsVars, submitted, queue, pc,
                    attempt, data, pending, result, successful_downloads,
                    pbar, collected, summary, failedFile, outcomes, sleeps >>

InterruptNext == Next \/ Interrupt \/ ExitInterrupted

\* A run that the operator may interrupt at any point.
InterruptSpec == Init /\ [][InterruptNext]_vars

\* ------------------------------------------ DeltaDownloader.process_download
\* Mutant of LastN: the first n entries are kept.
LastNOldest(seq, n) ==
    IF Len(seq) <= n THEN seq
    ELSE [j \in 1..n |-> seq[j]]

LastN(seq, n) ==
    IF Len(seq) <= n THEN seq
    ELSE [j \in 1..n |-> seq[Len(seq) - n + j]]

\* Mutant of get_cached_data: whatever part of the record the file holds
\* is returned.
get_cached_dataPartial(k) ==
    LET f == dfs[get_cache_path(k)]
    IN IF f.exists /\ Len(f.content) >= 1
       THEN [data |-> Parsed(f).data, hash |-> Parsed(f).hash]
       ELSE [data |-> NoneDoc, hash |-> NoneHash]

\* get_cached_data: (data, hash) of the cache file, or (None, None) when
\* the file is missing or json.load raises.
get_cached_data(k) ==
    LET f == dfs[get_cache_path(k)]
    IN IF Parses(f) THEN [data |-> Parsed(f).data, hash |-> Parsed(f).hash]
       ELSE [data |-> NoneDoc, hash |-> NoneHash]

\* `if not cached_data or cached_hash != new_hash`
HasChanged(k, d) ==
    \/ get_cached_data(k).data = NoneDoc
    \/ get_cached_data(k).hash # calculate_hash(d)

\* Mutant of DFetchNone: the cache file is opened for writing before the
\* payload is looked at.
DFetchNoneOpensCache(k) ==
    /\ dpc = "idle"
    /\ calls < MaxCalls
    /\ calls' = calls + 1
    /\ dkey' = k
    /\ dret' = [has_changes |-> FALSE, delta |-> EmptyDelta]
    /\ dfs' = [dfs EXCEPT ![get_cache_path(k)] = File(<<>>)]
    /\ UNCHANGED << httpVars, schedVars, pureVars, dpc, dlocal >>

\* download_pricing_data returned None (or raised): return False, {}.
DFetchNone(k) ==
    /\ dpc = "idle"
    /\ calls < MaxCalls
    /\ calls' = calls + 1
    /\ dkey' = k
    /\ dret' = [has_changes |-> FALSE, delta |-> EmptyDelta]
    /\ UNCHANGED << httpVars, schedVars, pureVars, dfs, dpc, dlocal >>

\* The download returned d and the cache holds a document with d's hash:
\* return False, {}.
DUnchanged(k, d) ==
    /\ dpc = "idle"
    /\ calls < MaxCalls
    /\ ~HasChanged(k, d)
    /\ calls' = calls + 1
    /\ dkey' = k
    /\ dret' = [has_changes |-> FALSE, delta |-> EmptyDelta]
    /\ UNCHANGED << httpVars, schedVars, pureVars, dfs, dpc, dlocal >>

\* Mutant of DChanged: the delta is computed and saved whatever the cache
\* holds.
DChangedAlways(k, d) ==
    /\ dpc = "idle"
    /\ calls < MaxCalls
    /\ calls' = calls + 1
    /\ dkey' = k
    /\ dlocal' = [new_data |-> d,
                  new_hash |-> calculate_hash(d),
                  delta |-> compute_delta(
                      IF get_cached_data(k).data = NoneDoc THEN EmptyProducts
                      ELSE get_cached_data(k).data, d),
                  history |-> <<>>,
                  cache_before |-> dfs[get_cache_path(k)],
                  hist_before |-> dfs[get_delta_path(k)]]
    /\ dpc' = "cache_open"
    /\ UNCHANGED << httpVars, schedVars, pureVars, dfs, dret >>

\* The download returned d and there is no cache or its hash differs: the
\* delta is computed and save_to_cache is entered.
DChanged(k, d) ==
    /\ dpc = "idle"
    /\ calls < MaxCalls
    /\ HasChanged(k, d)
    /\ calls' = calls + 1
    /\ dkey' = k
    /\ dlocal' = [new_data |-> d,
                  new_hash |-> calculate_hash(d),
                  delta |-> compute_delta(
                      IF get_cached_data(k).data = NoneDoc THEN EmptyProducts
                      ELSE get_cached_data(k).data, d),
                  history |-> <<>>,
                  cache_before |-> dfs[get_cache_path(k)],
                  hist_before |-> dfs[get_delta_path(k)]]
    /\ dpc' = "cache_open"
    /\ UNCHANGED << httpVars, schedVars, pureVars, dfs, dret >>

\* Mutant of CacheRecord: the hash of the document read from the cache is
\* stored with the new data.
CacheRecordStaleHash == [data |-> dlocal.new_data,
                         hash |-> get_cached_data(dkey).hash,
                         timestamp |-> calls]

\* What save_to_cache dumps.
CacheRecord == [data |-> dlocal.new_data, hash |-> dlocal.new_hash,
                timestamp |-> calls]

\* save_to_cache: open(cache_path, 'w') creates or empties the cache file.
CacheOpen ==
    /\ dpc = "cache_open"
    /\ dfs' = [dfs EXCEPT ![get_cache_path(dkey)] = File(<<>>)]
    /\ dpc' = "cache_write"
    /\ UNCHANGED << httpVars, schedVars, pureVars, calls, dkey, dlocal, dret >>

\* save_to_cache: json.dump writes the next chunk into the cache file;
\* after the last one save_delta_history is entered.
CacheWrite ==
    /\ dpc = "cache_write"
    /\ LET p == get_cache_path(dkey)
           n == Len(dfs[p].content) + 1
       IN /\ dfs' = [dfs EXCEPT ![p] = File(Append(@.content, JsonChunks(CacheRecord)[n]))]
          /\ dpc' = IF n = Len(JsonChunks(CacheRecord)) THEN "hist_read"
                                                         ELSE "cache_write"
    /\ UNCHANGED << httpVars, schedVars, pureVars, calls, dkey, dlocal, dret >>

\* save_to_cache: open or a write raises; the handler logs the error and
\* process_download goes on with save_delta_history.
CacheFault ==
    /\ dpc \in {"cache_open", "cache_write"}
    /\ dpc' = "hist_read"
    /\ UNCHANGED << httpVars, schedVars, pureVars, dfs, calls, dkey, dlocal, dret >>

\* Mutant of HistLoad: the new entry is appended twice.
HistLoadTwice ==
    /\ dpc = "hist_read"
    /\ LET f == dfs[get_delta_path(dkey)]
           entry == [timestamp |-> calls, delta |-> dlocal.delta]
       IN /\ ~f.exists \/ Parses(f)
          /\ dlocal' = [dlocal EXCEPT !.history =
                LastN((IF f.exists THEN Parsed(f) ELSE <<>>) \o <<entry, entry>>,
                      HistoryCap)]
    /\ dpc' = "hist_open"
    /\ UNCHANGED << httpVars, schedVars, pureVars, dfs, calls, dkey, dret >>

\* save_delta_history: the history file is missing or json.load reads a
\* list; the new entry is appended and the last 10 entries are kept.
HistLoad ==
    /\ dpc = "hist_read"
    /\ LET f == dfs[get_delta_path(dkey)]
           entry == [timestamp |-> calls, delta |-> dlocal.delta]
       IN /\ ~f.exists \/ Parses(f)
          /\ dlocal' = [dlocal EXCEPT !.history =
                LastN(Append(IF f.exists THEN Parsed(f) ELSE <<>>, entry),
                      HistoryCap)]
    /\ dpc' = "hist_open"
    /\ UNCHANGED << httpVars, schedVars, pureVars, dfs, calls, dkey, dret >>

\* save_delta_history: json.load raises on the existing file; the handler
\* logs the error, nothing is written, process_download returns True, delta.
HistLoadFails ==
    /\ dpc = "hist_read"
    /\ dfs[get_delta_path(dkey)].exists
    /\ ~Parses(dfs[get_delta_path(dkey)])
    /\ dret' = [has_changes |-> TRUE, delta |-> dlocal.delta]
    /\ dpc' = "idle"
    /\ dlocal' = NoLocal
    /\ UNCHANGED << httpVars, schedVars, pureVars, dfs, calls, dkey >>

\* save_delta_history: open(delta_path, 'w') creates or empties the file.
HistOpen ==
    /\ dpc = "hist_open"
    /\ dfs' = [dfs EXCEPT ![get_delta_path(dkey)] = File(<<>>)]
    /\ dpc' = "hist_write"
    /\ UNCHANGED << httpVars, schedVars, pureVars, calls, dkey, dlocal, dret >>

\* save_delta_history: json.dump writes the next chunk; after the last
\* one process_download returns True, delta.
HistWrite ==
    /\ dpc = "hist_write"
    /\ LET p == get_delta_path(dkey)
           n == Len(dfs[p].content) + 1
           done == n = Len(JsonChunks(dlocal.history))
       IN /\ dfs' = [dfs EXCEPT ![p] =
                       File(Append(@.content, JsonChunks(dlocal.history)[n]))]
          /\ dpc' = IF done THEN "idle" ELSE "hist_write"
          /\ dret' = IF done THEN [has_changes |-> TRUE, delta |-> dlocal.delta]
                             ELSE dret
          /\ dlocal' = IF done THEN NoLocal ELSE dlocal
    /\ UNCHANGED << httpVars, schedVars, pureVars, calls, dkey >>

\* save_delta_history: open or a write raises; the handler logs the error
\* and process_download returns True, delta.
HistFault ==
    /\ dpc \in {"hist_open", "hist_write"}
    /\ dret' = [has_changes |-> TRUE, delta |-> dlocal.delta]
    /\ dpc' = "idle"
    /\ dlocal' = NoLocal
    /\ UNCHANGED << httpVars, schedVars, pureVars, dfs, calls, dkey >>

\* The process is killed while it saves; a later process starts afresh.
Crash ==
    /\ dpc \in {"cache_open", "cache_write", "hist_read", "hist_open", "hist_write"}
    /\ dpc' = "idle"
    /\ dlocal' = NoLocal
    /\ UNCHANGED << httpVars, schedVars, pureVars, dfs, calls, dkey, dret >>

DeltaNext ==
    \/ \E k \in DKeys : DFetchNone(k)
    \/ \E k \in DKeys, d \in InputDocs : DUnchanged(k, d)
    \/ \E k \in DKeys, d \in InputDocs : DChanged(k, d)
    \/ CacheOpen
    \/ CacheWrite
    \/ CacheFault
    \/ HistLoad
    \/ HistLoadFails
    \/ HistOpen
    \/ HistWrite
    \/ HistFault
    \/ Crash

DeltaSpec == DeltaInit /\ [][DeltaNext]_vars

\* ------------------------------------------- names with an underscore
\* process_download takes any two strings.  Keys whose service or region
\* name holds an underscore: ("Amazon", "EC2_ap-south-1") and
\* ("Amazon_EC2", "ap-south-1"), beside a key without one.
WideKeys == { << <<"Amazon">>, <<"EC2", "ap-south-1">> >>,
              << <<"Amazon", "EC2">>, <<"ap-south-1">> >>,
              << <<"AmazonS3">>, <<"ap-south-1">> >> }
WidePaths == {get_cache_path(k) : k \in WideKeys}
                 \cup {get_delta_path(k) : k \in WideKeys}

\* A fresh cache directory, and a caller that uses the keys of WideKeys.
WideInit ==
    /\ SchedInit
    /\ max_retries = MaxRetriesBound
    /\ max_workers = MaxWorkersBound
    /\ PureIdle
    /\ HttpIdle
    /\ dfs = [p \in WidePaths |-> Absent]
    /\ calls = 0
    /\ dpc = "idle"
    /\ dkey = NoKey
    /\ dlocal = NoLocal
    /\ dret = [has_changes |-> FALSE, delta |-> EmptyDelta]

WideNext ==
    \/ \E k \in WideKeys : DFetchNone(k)
    \/ \E k \in WideKeys, d \in InputDocs : DUnchanged(k, d)
    \/ \E k \in WideKeys, d \in InputDocs : DChanged(k, d)
    \/ CacheOpen
    \/ CacheWrite
    \/ CacheFault
    \/ HistLoad
    \/ HistLoadFails
    \/ HistOpen
    \/ HistWrite
    \/ HistFault
    \/ Crash

WideSpec == WideInit /\ [][WideNext]_vars

\* ------------------------------------------------- save_delta_history
\* The number of appends the model makes, and the delta it appends.
MaxAppends == HistoryCap + 5
HistDelta == compute_delta(EmptyProducts,
                           PricingDoc(KeysVP, "v1", <<Product(1, RecX)>>))

\* process_download reaches save_delta_history(service, region, delta)
\* for key k.
SaveDeltaHistory(k) ==
    /\ dpc = "idle"
    /\ calls < MaxAppends
    /\ calls' = calls + 1
    /\ dkey' = k
    /\ dlocal' = [NoLocal EXCEPT !.delta = HistDelta,
                                 !.hist_before = dfs[get_delta_path(k)]]
    /\ dpc' = "hist_read"
    /\ UNCHANGED << httpVars, schedVars, pureVars, dfs, dret >>

\* Appends to the histories of the keys, each running to its end.
HistoryNext ==
    \/ \E k \in DKeys : SaveDeltaHistory(k)
    \/ HistLoad
    \/ HistOpen
    \/ HistWrite

HistorySpec == DeltaInit /\ [][HistoryNext]_vars

\* ------------------------------------- compute_delta and calculate_hash
\* The product mappings over two ids and the three records, and the
\* documents built from them in both top-level key orders.
ProductIds == {1, 2}
Recs == {RecX, RecXr, RecY}
ProductMaps ==
    {<<>>}
    \cup {<<Product(i, r)>> : i \in ProductIds, r \in Recs}
    \cup {<<Product(ij[1], r), Product(ij[2], q)>> :
              ij \in {<<1, 2>>, <<2, 1>>}, r \in Recs, q \in Recs}
PureDocs ==
    {PricingDoc(ks, v, ps) :
        ks \in {KeysVP, KeysPV}, v \in {"v1", "v2"}, ps \in ProductMaps}

\* A caller holds two documents.
PureInit ==
    /\ SchedInit
    /\ max_retries = MaxRetriesBound
    /\ max_workers = MaxWorkersBound
    /\ DeltaIdle
    /\ HttpIdle
    /\ p_old \in PureDocs
    /\ p_new \in PureDocs
    /\ p_delta = EmptyDelta
    /\ p_hash = <<NoneHash, NoneHash>>
    /\ ppc = "args"

\* delta = self.compute_delta(p_old, p_new)
CallComputeDelta ==
    /\ ppc = "args"
    /\ p_delta' = compute_delta(p_old, p_new)
    /\ ppc' = "delta"
    /\ UNCHANGED << httpVars, schedVars, deltaVars, p_old, p_new, p_hash >>

\* self.calculate_hash(p_old), self.calculate_hash(p_new)
CallCalculateHash ==
    /\ ppc = "delta"
    /\ p_hash' = <<calculate_hash(p_old), calculate_hash(p_new)>>
    /\ ppc' = "hash"
    /\ UNCHANGED << httpVars, schedVars, deltaVars, p_old, p_new, p_delta >>

PureNext == CallComputeDelta \/ CallCalculateHash

PureSpec == PureInit /\ [][PureNext]_vars

\* ------------------------------------- process_download, request by request
\* `for attempt in range(self.max_retries)`: download_pricing_data is entered
\* and session.get starts with the Retry object of the adapter.
SessionGet ==
    /\ hpc = "loop"
    /\ h_attempt < max_retries
    /\ hpc' = "send"
    /\ h_total' = RetryTotal
    /\ UNCHANGED << schedVars, deltaVars, pureVars, h_attempt, h_sent, h_status >>

\* The adapter sends one GET request and sees what comes back.
AdapterSend ==
    /\ hpc = "send"
    /\ \E r \in Responses : h_status' = r
    /\ h_sent' = h_sent + 1
    /\ hpc' = "response"
    /\ UNCHANGED << schedVars, deltaVars, pureVars, h_attempt, h_total >>

\* A status of status_forcelist, or no response: Retry.increment; with
\* retries left the request is sent again, otherwise session.get raises,
\* download_pricing_data returns False and the loop goes on after the sleep.
AdapterRetry ==
    /\ hpc = "response"
    /\ h_status \in status_forcelist \cup {"timeout"}
    /\ IF h_total > 0
       THEN /\ h_total' = h_total - 1
            /\ hpc' = "send"
            /\ h_attempt' = h_attempt
       ELSE /\ hpc' = "loop"
            /\ h_attempt' = h_attempt + 1
            /\ h_total' = h_total
    /\ UNCHANGED << schedVars, deltaVars, pureVars, h_sent, h_status >>

\* Any other error status: raise_for_status raises, download_pricing_data
\* returns False and the loop goes on after the sleep.
RaiseForStatus ==
    /\ hpc = "response"
    /\ h_status = "404"
    /\ hpc' = "loop"
    /\ h_attempt' = h_attempt + 1
    /\ UNCHANGED << schedVars, deltaVars, pureVars, h_total, h_sent, h_status >>

\* Status 200: the body is read, parsed and saved; process_download returns
\* True, or the body or the save was bad and the loop goes on.
BodyRead ==
    /\ hpc = "response"
    /\ h_status = "200"
    /\ \/ hpc' = "returned" /\ h_attempt' = h_attempt
       \/ hpc' = "loop" /\ h_attempt' = h_attempt + 1
    /\ UNCHANGED << schedVars, deltaVars, pureVars, h_total, h_sent, h_status >>

\* The loop is exhausted: `return False, 0`.
ReturnFalse ==
    /\ hpc = "loop"
    /\ h_attempt = max_retries
    /\ hpc' = "failed"
    /\ UNCHANGED << schedVars, deltaVars, pureVars, h_attempt, h_total, h_sent, h_status >>

HttpNext ==
    \/ SessionGet
    \/ AdapterSend
    \/ AdapterRetry
    \/ RaiseForStatus
    \/ BodyRead
    \/ ReturnFalse

HttpSpec == Init /\ [][HttpNext]_vars

\* ------------------------------------------------------------------ claims
Finished == mainpc = "end"
Succeeded(t) == result[t] = "true"
FailedTask(t) == result[t] = "false"
RecordsOf(t) == {i \in 1..Len(failed_downloads) :
                    /\ failed_downloads[i].service = t[1]
                    /\ failed_downloads[i].region = t[2]}
SaveErrorRecorded(t) ==
    \E i \in RecordsOf(t) : failed_downloads[i].error = "Save error"

\* C1 (as claimed): in a run whose only failures are fetch errors
\* (connection error, timeout, HTTP error), at the end the summary's failed
\* count is the number of tasks that did not succeed, attempted = succeeded +
\* failed, and the failure list, also as persisted, holds exactly one record
\* for every task that exhausted its retries and none for any other task.
C1_OneRecordPerFailedTask ==
    (/\ Finished
     /\ max_retries >= 1
     /\ \A t \in Tasks : outcomes[t].kinds \subseteq {"transient"})
    => /\ summary.failed = Cardinality({t \in Tasks : FailedTask(t)})
       /\ summary.attempted = summary.succeeded + summary.failed
       /\ \A t \in Tasks :
             Cardinality(RecordsOf(t)) = IF FailedTask(t) THEN 1 ELSE 0
       /\ failedFile.exists => failedFile.content = failed_downloads

\* C2: under fair scheduling every run ends: every task reaches a final
\* outcome, the progress bar was advanced once per task, and the summary
\* reports attempted = |catalogs| x |partitions|, whatever tasks failed; and
\* at all times the progress bar counts exactly the collected tasks.
C2_RunCompletes ==
    /\ <>[](/\ Finished
            /\ \A t \in Tasks : pc[t] = "done" /\ result[t] # "none"
            /\ pbar = total_combinations
            /\ summary.attempted = total_combinations)
    /\ [](pbar = Cardinality(collected) /\ pbar <= total_combinations)

\* C2 witness: a finished run in which one task exhausted its retries and
\* another task succeeded.
C2_Witness ==
    /\ Finished
    /\ \E t, u \in Tasks :
          /\ FailedTask(t) /\ outcomes[t].n = max_retries /\ max_retries >= 2
          /\ Succeeded(u)

\* The retry loop's bookkeeping, common to the two statements of C3.
C3_Loop(t) ==
    /\ outcomes[t].n <= max_retries
    /\ Succeeded(t) => outcomes[t].last = "ok"
    /\ FailedTask(t) => outcomes[t].n = max_retries /\ outcomes[t].last # "ok"

\* C3 (as claimed): every task makes at least 1 and at most maxRetries
\* attempts, none after its successful one, and ends failed only after
\* exactly maxRetries failed attempts.
C3_BoundedAttempts ==
    \A t \in Tasks :
        /\ C3_Loop(t)
        /\ pc[t] = "done" => outcomes[t].n >= 1

\* C3 (amended): as claimed, except that the number of attempts is at least
\* 1 only when maxRetries >= 1; with maxRetries = 0 the task makes no
\* attempt and ends failed.
C3_BoundedAttemptsAmended ==
    \A t \in Tasks :
        /\ C3_Loop(t)
        /\ pc[t] = "done" =>
              IF max_retries >= 1 THEN outcomes[t].n >= 1
              ELSE outcomes[t].n = 0 /\ FailedTask(t)

\* C3 witness: one task failed after maxRetries = 2 failed attempts and
\* another succeeded at its second attempt.
C3_Witness ==
    \E t, u \in Tasks :
        /\ max_retries = 2
        /\ FailedTask(t) /\ outcomes[t].n = 2
        /\ Succeeded(u) /\ outcomes[u].n = 2

\* C4 (as claimed): a task that made k >= 1 attempts has slept exactly k-1
\* times, 2^n after failed attempt n (from 0), and never after its last
\* attempt.
C4_SleepsBetweenAttempts ==
    \A t \in Tasks :
        (pc[t] = "done" /\ outcomes[t].n >= 1) =>
            /\ Len(sleeps[t]) = outcomes[t].n - 1
            /\ \A i \in 1..Len(sleeps[t]) : sleeps[t][i] = Pow2(i - 1)

\* C5 (as claimed): once an attempt of a task ended with a body that is not
\* JSON, the task starts no further attempt.
C5_MalformedNotRetried ==
    [][\A t \in Tasks :
          outcomes[t].last = "malformed" => outcomes'[t].n = outcomes[t].n]_vars

\* C6 (as claimed): at the end of a run whose retry budget allows an
\* attempt, every task that did not succeed has at least one record in the
\* failure list, whatever made its attempts fail.
C6_EveryFailureRecorded ==
    (Finished /\ max_retries >= 1) =>
        \A t \in Tasks : FailedTask(t) => RecordsOf(t) # {}

\* C7 (as claimed): a task that succeeded has no record in the failure
\* list, and a run in which every task succeeded ends with an empty failure
\* list and no failed_downloads.json.
C7_RecordOnlyOnTerminalFailure ==
    /\ \A t \in Tasks : Succeeded(t) => RecordsOf(t) = {}
    /\ (Finished /\ \A t \in Tasks : Succeeded(t)) =>
          failed_downloads = <<>> /\ ~failedFile.exists

\* C8: at every step the final path of every task holds the complete
\* document an earlier run left (or nothing), or the complete new document.
C8_FinalPathNeverPartial ==
    \A t \in Tasks :
        \/ files[t] = PriorFile(t)
        \/ files[t] = File(Serialize(t, "new"))

\* C8 witness: a task with an older file is in the middle of writing the
\* temporary file, while another task's final path already holds the new
\* document.
C8_Witness ==
    \E t, u \in Tasks :
        /\ PriorFile(t).exists
        /\ pc[t] = "save_write" /\ Len(tmpfiles[t].content) = 1
        /\ files[u] = File(Serialize(u, "new")) /\ files[u] # PriorFile(u)

\* C9: when the write of the temporary file or the rename failed, the final
\* path holds what it held before the save began, complete if it existed,
\* the attempt is not a success, and the failure is reported: a "Save
\* error" record is about to be appended or is in the failure list.
C9_FailedSaveLeavesFinalPath ==
    \A t \in Tasks :
        outcomes[t].last = "saveerr" =>
            /\ files[t] = PriorFile(t)
            /\ files[t].exists => IsComplete(t, files[t])
            /\ ~Succeeded(t)
            /\ pending[t] = "Save error" \/ SaveErrorRecorded(t)

\* C9 witness: the rename failed for a task that had an older file: the
\* temporary file is complete and the failure is in the list.
C9_Witness ==
    \E t \in Tasks :
        /\ outcomes[t].last = "saveerr"
        /\ PriorFile(t).exists
        /\ tmpfiles[t] = File(Serialize(t, "new"))
        /\ SaveErrorRecorded(t)

\* C10 (as claimed): at every step, and after a fault or a crash at any
\* step, the cache file and the history file of every key are missing or
\* hold a complete JSON document; while one is being saved it is what it
\* was before the save or the complete new content.
C10_CacheAndHistoryNeverPartial ==
    /\ \A p \in DPaths : dfs[p].exists => Parses(dfs[p])
    /\ dpc \in {"cache_open", "cache_write"} =>
          \/ dfs[get_cache_path(dkey)] = dlocal.cache_before
          \/ dfs[get_cache_path(dkey)] = File(JsonChunks(CacheRecord))
    /\ dpc \in {"hist_open", "hist_write"} =>
          \/ dfs[get_delta_path(dkey)] = dlocal.hist_before
          \/ dfs[get_delta_path(dkey)] = File(JsonChunks(dlocal.history))

\* C11: process_download appends a history entry and replaces the snapshot
\* only when the key has no usable snapshot or the fetched payload's hash
\* differs from the stored one; every other call returns (False, {}) and
\* leaves the cache and history files as they were. A stored snapshot has
\* the hash of its own payload, so fetching that payload again right after
\* it was stored is such a call: the history keeps the one entry.
C11_NoChangeNoEntry ==
    /\ [](\A k \in DKeys :
            Parses(dfs[get_cache_path(k)]) =>
                ~HasChanged(k, Parsed(dfs[get_cache_path(k)]).data))
    /\ [][(dpc = "idle" /\ calls' = calls + 1) =>
            \/ /\ dpc' = "cache_open"
               /\ HasChanged(dkey', dlocal'.new_data)
               /\ dfs' = dfs
            \/ /\ dpc' = "idle"
               /\ dfs' = dfs
               /\ dret' = [has_changes |-> FALSE, delta |-> EmptyDelta]]_vars

\* The second call for a key came back without a change: the snapshot and
\* the single history entry are those of the first call.
C11_Witness ==
    /\ dpc = "idle"
    /\ calls = 2
    /\ dret = [has_changes |-> FALSE, delta |-> EmptyDelta]
    /\ Parses(dfs[get_cache_path(dkey)])
    /\ Parsed(dfs[get_cache_path(dkey)]).timestamp = 1
    /\ ~HasChanged(dkey, Parsed(dfs[get_cache_path(dkey)]).data)
    /\ Parses(dfs[get_delta_path(dkey)])
    /\ Len(Parsed(dfs[get_delta_path(dkey)])) = 1
    /\ Parsed(dfs[get_delta_path(dkey)])[1].timestamp = 1

Ids(ps) == {ps[j].id : j \in 1..Len(ps)}
\* Two product records are equal when they hold the same attributes with
\* the same values.
SameRecord(r1, r2) == Range(r1) = Range(r2)
InBoth == Ids(p_old.products) \cap Ids(p_new.products)

\* C13: compute_delta(old, new) classifies exactly: the keys of `added`
\* are the product ids in new and not in old, each with its new record;
\* the keys of `removed` are the ids in old and not in new, each with its
\* old record; the keys of `modified` are the ids in both whose records
\* are unequal, each with {old, new}; an id in both with equal records is
\* in none of the three; no id is listed twice in a mapping.
C13_DeltaClassifies ==
    ppc \in {"delta", "hash"} =>
        LET old == p_old.products
            new == p_new.products
            added == p_delta.added
            removed == p_delta.removed
            modified == p_delta.modified
        IN /\ Ids(added) = Ids(new) \ Ids(old)
           /\ Len(added) = Cardinality(Ids(added))
           /\ \A j \in 1..Len(added) : added[j].rec = RecOf(new, added[j].id)
           /\ Ids(removed) = Ids(old) \ Ids(new)
           /\ Len(removed) = Cardinality(Ids(removed))
           /\ \A j \in 1..Len(removed) : removed[j].rec = RecOf(old, removed[j].id)
           /\ Ids(modified) =
                 {i \in InBoth : ~SameRecord(RecOf(old, i), RecOf(new, i))}
           /\ Len(modified) = Cardinality(Ids(modified))
           /\ \A j \in 1..Len(modified) :
                 /\ modified[j].old = RecOf(old, modified[j].id)
                 /\ modified[j].new = RecOf(new, modified[j].id)
           /\ \A i \in InBoth :
                 SameRecord(RecOf(old, i), RecOf(new, i)) =>
                     i \notin Ids(added) \cup Ids(removed) \cup Ids(modified)

\* One product changed its price and another has the same record with its
\* attributes in another order: only the first is in the delta.
C13_Witness ==
    /\ ppc = "delta"
    /\ Len(p_delta.modified) = 1
    /\ \E i \in InBoth :
          /\ RecOf(p_old.products, i) # RecOf(p_new.products, i)
          /\ SameRecord(RecOf(p_old.products, i), RecOf(p_new.products, i))
          /\ i \notin Ids(p_delta.modified)

\* C14: for every payload P, compute_delta(P, P) has empty `added`, empty
\* `removed` and empty `modified`.
C14_DeltaOfSameIsEmpty ==
    (ppc \in {"delta", "hash"} /\ p_old = p_new) =>
        /\ p_delta.added = <<>>
        /\ p_delta.removed = <<>>
        /\ p_delta.modified = <<>>

\* compute_delta has been given the same two-product payload twice.
C14_Witness ==
    /\ ppc = "delta"
    /\ p_old = p_new
    /\ Len(p_new.products) = 2
    /\ p_delta = EmptyDelta

\* C15: in the result of compute_delta the key sets of `added`, `removed`
\* and `modified` are pairwise disjoint.
C15_DeltaKeysDisjoint ==
    ppc \in {"delta", "hash"} =>
        /\ Ids(p_delta.added) \cap Ids(p_delta.removed) = {}
        /\ Ids(p_delta.added) \cap Ids(p_delta.modified) = {}
        /\ Ids(p_delta.removed) \cap Ids(p_delta.modified) = {}

\* A delta with an added, a removed or a modified product in two of its
\* three mappings.
C15_Witness ==
    /\ ppc = "delta"
    /\ \/ p_delta.added # <<>> /\ p_delta.modified # <<>>
       \/ p_delta.added # <<>> /\ p_delta.removed # <<>>
       \/ p_delta.removed # <<>> /\ p_delta.modified # <<>>
    /\ InBoth # {}

\* Two documents hold the same keys with the same values at every level.
SameDoc(d1, d2) ==
    /\ Range(d1.keys) = Range(d2.keys)
    /\ d1.version = d2.version
    /\ Ids(d1.products) = Ids(d2.products)
    /\ \A i \in Ids(d1.products) :
          SameRecord(RecOf(d1.products, i), RecOf(d2.products, i))

\* C16: two payloads with the same keys and values at every nesting level
\* have the same hash, whatever the insertion order of their top-level
\* keys, of their products and of the attributes of a product; the same
\* payload has the same hash on every call.
C16_HashIgnoresKeyOrder ==
    ppc = "hash" =>
        /\ SameDoc(p_old, p_new) => p_hash[1] = p_hash[2]
        /\ p_old = p_new => p_hash[1] = p_hash[2]

\* Two payloads that differ in the order of their top-level keys, of their
\* products and of the attributes of a product have been hashed.
C16_Witness ==
    /\ ppc = "hash"
    /\ SameDoc(p_old, p_new)
    /\ p_old.keys # p_new.keys
    /\ Len(p_old.products) = 2
    /\ p_old.products[1].id # p_new.products[1].id
    /\ \E i \in InBoth : RecOf(p_old.products, i) # RecOf(p_new.products, i)
    /\ p_hash[1] = p_hash[2]

HistoryOf(k) == Parsed(dfs[get_delta_path(k)])
HistEntry(n) == [timestamp |-> n, delta |-> HistDelta]

\* C17: a history file never holds more than 10 entries; an append leaves
\* the prior entries in their order followed by the new one, without the
\* oldest entry when the prior history was full; after n appends to one
\* key its history is the last min(n, 10) appended entries, oldest first,
\* so 15 appends from an empty history leave the entries of appends 6..15.
C17_HistoryKeepsLastCap ==
    /\ [](\A k \in DKeys :
            Parses(dfs[get_delta_path(k)]) => Len(HistoryOf(k)) <= HistoryCap)
    /\ [][(dpc = "hist_write" /\ dpc' = "idle") =>
            LET prior == IF dlocal.hist_before.exists
                         THEN Parsed(dlocal.hist_before) ELSE <<>>
                kept == IF Len(prior) < HistoryCap THEN prior ELSE Tail(prior)
            IN /\ Parses(dfs'[get_delta_path(dkey)])
               /\ Parsed(dfs'[get_delta_path(dkey)]) = Append(kept, HistEntry(calls))]_vars
    /\ [](\A k \in DKeys :
            (/\ dpc = "idle"
             /\ calls >= 1
             /\ \A o \in DKeys \ {k} : ~dfs[get_delta_path(o)].exists) =>
                LET n == IF calls < HistoryCap THEN calls ELSE HistoryCap
                IN /\ Parses(dfs[get_delta_path(k)])
                   /\ HistoryOf(k) = [j \in 1..n |-> HistEntry(calls - n + j)])

\* Fifteen appends to one key have been made: its history holds the ten
\* entries of appends 6 to 15.
C17_Witness ==
    /\ dpc = "idle"
    /\ calls = HistoryCap + 5
    /\ \E k \in DKeys :
          /\ \A o \in DKeys \ {k} : ~dfs[get_delta_path(o)].exists
          /\ Len(HistoryOf(k)) = HistoryCap
          /\ HistoryOf(k)[1] = HistEntry(6)
          /\ HistoryOf(k)[HistoryCap] = HistEntry(HistoryCap + 5)

\* C18 (as claimed): when save_delta_history finds the history file
\* missing or unparseable it takes the prior history to be empty and goes
\* on to write the list that holds just the new record (the alternative in
\* the formula is the process being killed at that point).
C18_AppendRecovers ==
    [][(dpc = "hist_read" /\ ~Parses(dfs[get_delta_path(dkey)])) =>
          \/ /\ dpc' = "hist_open"
             /\ dlocal'.history = <<[timestamp |-> calls, delta |-> dlocal.delta]>>
          \/ /\ dpc' = "idle"
             /\ dret' = dret]_vars

\* C19: in every reachable state a cache file that parses holds a `hash`
\* equal to calculate_hash of its own `data`.
C19_CacheHashMatchesData ==
    \A k \in DKeys :
        Parses(dfs[get_cache_path(k)]) =>
            Parsed(dfs[get_cache_path(k)]).hash =
                calculate_hash(Parsed(dfs[get_cache_path(k)]).data)

\* A cache file holds a document whose products are not in sorted order,
\* with the hash of the sorted text.
C19_Witness ==
    \E k \in DKeys :
        /\ Parses(dfs[get_cache_path(k)])
        /\ Len(Parsed(dfs[get_cache_path(k)]).data.products) = 2
        /\ Parsed(dfs[get_cache_path(k)]).data.products[1].id = 2
        /\ Parsed(dfs[get_cache_path(k)]).hash.products[1].id = 1
        /\ Parsed(dfs[get_cache_path(k)]).timestamp = 2

\* C20: get_cached_data returns (None, None) when the cache file of the key
\* is missing or cannot be parsed, so every fetched payload counts as
\* changed; a process_download call made in such a state either got no
\* payload and returns (False, {}) with the files untouched, or goes on as
\* a first fetch: it computes the delta against an empty product mapping
\* and enters save_to_cache.
C20_LoadNeverFails ==
    /\ [](\A k \in DKeys :
            ~Parses(dfs[get_cache_path(k)]) =>
                /\ get_cached_data(k) = [data |-> NoneDoc, hash |-> NoneHash]
                /\ \A d \in InputDocs : HasChanged(k, d))
    /\ [][(/\ dpc = "idle"
           /\ calls' = calls + 1
           /\ ~Parses(dfs[get_cache_path(dkey')])) =>
            \/ /\ dpc' = "cache_open"
               /\ dlocal'.delta = [added |-> dlocal'.new_data.products,
                                   modified |-> <<>>, removed |-> <<>>]
            \/ /\ dpc' = "idle"
               /\ dret' = [has_changes |-> FALSE, delta |-> EmptyDelta]
               /\ dfs' = dfs]_vars

\* The second call found a cache file that exists and does not parse, and
\* is about to save its payload as a first fetch.
C20_Witness ==
    /\ dpc = "cache_open"
    /\ calls = 2
    /\ dfs[get_cache_path(dkey)].exists
    /\ ~Parses(dfs[get_cache_path(dkey)])
    /\ dlocal.delta.added = dlocal.new_data.products
    /\ Len(dlocal.delta.added) = 2

\* The paths a worker of task t writes.
WritePaths(t) == {filepath(t), temp_filepath(t)}
InQueue(t) == {j \in 1..Len(queue) : queue[j] = t}

\* C21: the combinations list holds every (service, region) pair exactly
\* once; every submitted task is in the work queue exactly once until one
\* pool thread takes it, and is never in the queue again afterwards, so it
\* is run by one worker; at most max_workers tasks run at a time; two
\* running tasks have different keys and share neither the payload path
\* nor the temporary path.
C21_OneWorkerPerKey ==
    /\ \A i \in 1..Len(SERVICES), j \in 1..Len(REGIONS) :
          Cardinality({k \in 1..Len(combinations) :
                          combinations[k] = <<SERVICES[i], REGIONS[j]>>}) = 1
    /\ Len(combinations) = Len(SERVICES) * Len(REGIONS)
    /\ submitted = Cardinality({t \in Tasks : pc[t] # "new"})
    /\ \A t \in Tasks :
          Cardinality(InQueue(t)) = IF pc[t] = "queued" THEN 1 ELSE 0
    /\ Cardinality(Running) <= max_workers
    /\ \A t, u \in Running : t # u => WritePaths(t) \cap WritePaths(u) = {}

\* Two workers are saving at the same time, each into its own temporary
\* file.
C21_Witness ==
    \E t, u \in Running :
        /\ t # u
        /\ pc[t] = "save_write" /\ Len(tmpfiles[t].content) = 1
        /\ pc[u] = "save_write" /\ Len(tmpfiles[u].content) = 1

InCritical(t) == pc[t] \in {"rec_locked", "bytes_locked"}

\* C22: a worker is inside one of the two critical sections exactly while
\* it holds data_lock, so never while it fetches, saves or sleeps and
\* never two workers at once; the failure list and the byte counter change
\* only in a step of the lock holder, which appends one record (the list
\* before the step stays as its prefix) or adds the size of its body; so
\* every update takes effect and the list never shrinks.
C22_UpdatesUnderLock ==
    /\ [](\A t \in Tasks : InCritical(t) <=> data_lock = t)
    /\ [][failed_downloads' # failed_downloads =>
            /\ data_lock \in Tasks
            /\ pc[data_lock] = "rec_locked"
            /\ total_data_downloaded' = total_data_downloaded
            /\ failed_downloads' = Append(failed_downloads,
                  [service |-> data_lock[1], region |-> data_lock[2],
                   error |-> pending[data_lock]])]_vars
    /\ [][total_data_downloaded' # total_data_downloaded =>
            /\ data_lock \in Tasks
            /\ pc[data_lock] = "bytes_locked"
            /\ failed_downloads' = failed_downloads
            /\ total_data_downloaded' =
                  total_data_downloaded + BodySize(data_lock, data[data_lock])]_vars
    /\ [][\A t \in Tasks :
            (InCritical(t) /\ ~InCritical(t)') =>
                \/ Len(failed_downloads') = Len(failed_downloads) + 1
                \/ total_data_downloaded' > total_data_downloaded]_vars

\* One worker holds the lock to record a failure while the other waits for
\* it to add its bytes; a record is already in the list.
C22_Witness ==
    \E t, u \in Tasks :
        /\ data_lock = t
        /\ pc[t] = "rec_locked"
        /\ pc[u] = "bytes_wait"
        /\ Len(failed_downloads) >= 1

ServiceNames == <<"AmazonEC2", "AmazonS3", "AmazonRDS", "AmazonDynamoDB">>
KeyOf(t) == << <<ServiceNames[t[1]]>>, <<t[2]>> >>

\* C24 (as claimed): after a run, the snapshot cache of every task that
\* succeeded exists and parses (it holds the payload fetched in the run,
\* stored by the worker after its hash comparison).
C24_SnapshotAfterRun ==
    Finished =>
        \A t \in Tasks :
            Succeeded(t) =>
                /\ get_cache_path(KeyOf(t)) \in DOMAIN dfs
                /\ Parses(dfs[get_cache_path(KeyOf(t))])

\* C25 (as claimed): once the interrupt has arrived no task that was still
\* waiting in the queue is started, and the payload file of every task
\* holds what the earlier run left or the complete new document.
C25_InterruptStopsDispatch ==
    /\ [][(max_retries >= 1 /\ (mainpc = "shutdown" \/ mainpc = "exit")) =>
            (\A t \in Tasks : pc[t] = "queued" => pc'[t] = "queued")]_vars
    /\ [](\A t \in Tasks :
            \/ files[t] = PriorFile(t)
            \/ files[t] = File(Serialize(t, "new")))

\* C26 (as claimed): once a save of task t has raised, the task makes no
\* further attempt: the failed save stays its latest outcome while the
\* failure is recorded and the task ends as failed.
C26_SaveErrorIsTerminal ==
    \A t \in Tasks :
        "saveerr" \in outcomes[t].kinds =>
            /\ outcomes[t].last = "saveerr"
            /\ pc[t] \in {"rec_wait", "rec_locked", "sleep", "done"}
            /\ pc[t] = "done" => FailedTask(t)

\* Task t is inside download_pricing_data, the fetch operation.
InFetch(t) ==
    pc[t] \in {"attempt", "save_open", "save_write", "save_replace",
               "rec_wait", "rec_locked", "bytes_wait", "bytes_locked"}

\* C27 (as claimed): while a task is inside the fetch operation no file
\* changes: neither its payload file nor the temporary file next to it.
C27_FetchLeavesStorage ==
    [][(\A t \in Tasks :
          InFetch(t) => files'[t] = files[t] /\ tmpfiles'[t] = tmpfiles[t])]_vars

C29_OneRequestPerAttempt ==
    /\ h_sent <= max_retries
    /\ hpc = "loop" => h_sent = h_attempt

\* The bytes of the successful attempts of the tasks in S.
RECURSIVE SuccessBytes(_)
SuccessBytes(S) ==
    IF S = {} THEN 0
    ELSE LET t == CHOOSE x \in S : TRUE
         IN  BodySize(t, data[t]) + SuccessBytes(S \ {t})

\* C30: at every moment the byte counter is the sum, over the tasks that
\* have succeeded, of the size of the body of the successful attempt, each
\* counted once; the summary reports that sum; the counter changes only in
\* the step in which a task succeeds, so bytes received in failed attempts
\* are never counted; and the counter never decreases.
C30_BytesOfSuccessfulAttempts ==
    /\ [](total_data_downloaded =
             SuccessBytes({t \in Tasks : Succeeded(t)}))
    /\ [](Finished =>
             summary.bytes = SuccessBytes({t \in Tasks : Succeeded(t)}))
    /\ [][/\ total_data_downloaded' >= total_data_downloaded
          /\ (total_data_downloaded' # total_data_downloaded =>
                 (\E t \in Tasks : ~Succeeded(t) /\ result'[t] = "true"))]_vars

\* C30 witness: a finished run in which a task succeeded after an attempt
\* whose body did not parse, another task failed, and the summary reports
\* the bytes of the one successful attempt.
C30_Witness ==
    /\ Finished
    /\ \E t \in Tasks :
          /\ Succeeded(t)
          /\ "malformed" \in outcomes[t].kinds
          /\ summary.bytes = BodySize(t, data[t])
          /\ summary.bytes > 0
          /\ \E u \in Tasks \ {t} :
                FailedTask(u) /\ "malformed" \in outcomes[u].kinds

\* C31 (as claimed): when a process_download call that detected a change
\* returns, also after save_to_cache or save_delta_history failed, either
\* the cache file holds the new payload and the history ends with the
\* call's delta, or both files are what they were when the call began.
C31_SnapshotAndHistoryTogether ==
    [][(HistLoadFails \/ HistFault \/ (HistWrite /\ dpc' = "idle")) =>
        LET cache == dfs'[get_cache_path(dkey)]
            hist == dfs'[get_delta_path(dkey)]
        IN \/ /\ Parses(cache)
              /\ Parsed(cache).data = dlocal.new_data
              /\ Parses(hist)
              /\ Parsed(hist) # <<>>
              /\ Parsed(hist)[Len(Parsed(hist))] =
                    [timestamp |-> calls, delta |-> dlocal.delta]
           \/ /\ cache = dlocal.cache_before
              /\ hist = dlocal.hist_before]_vars

\* C32 (as claimed): an entry that process_download writes to the delta
\* history of a key whose cache file held a snapshot when the call began
\* has a delta with a non-empty `added`, `removed` or `modified`.
C32_AppendedDeltaNotEmpty ==
    [][(HistWrite /\ dpc' = "idle" /\ Parses(dlocal.cache_before)) =>
        LET hist == Parsed(dfs'[get_delta_path(dkey)])
        IN /\ hist[Len(hist)].timestamp = calls
           /\ hist[Len(hist)].delta # EmptyDelta]_vars

C34_KeysHaveOwnFiles ==
    /\ [](\A k1 \in WideKeys, k2 \in WideKeys :
            k1 # k2 => /\ get_cache_path(k1) # get_cache_path(k2)
                       /\ get_delta_path(k1) # get_delta_path(k2))
    /\ [][\A k \in WideKeys :
            k # dkey' => /\ dfs'[get_cache_path(k)] = dfs[get_cache_path(k)]
                         /\ dfs'[get_delta_path(k)] = dfs[get_delta_path(k)]]_vars

\* The product mapping obtained from old_products by deleting the keys of
\* `removed`, setting the keys of `modified` to their `new` records and
\* inserting the entries of `added`, as a set of (id, record) entries.
Reconstructed(old_products, delta) ==
    LET kept == {e \in Range(old_products) : ~HasId(delta.removed, e.id)}
        overridden ==
            {IF HasId(delta.modified, e.id)
             THEN Product(e.id, delta.modified[
                      CHOOSE j \in 1..Len(delta.modified) :
                          delta.modified[j].id = e.id].new)
             ELSE e : e \in kept}
    IN {e \in overridden : ~HasId(delta.added, e.id)} \cup Range(delta.added)

\* C35: for every pair of documents, applying the delta that compute_delta
\* returned to the old products gives the new products: the same product
\* ids, each once, each with a record equal (as a dict) to the new one.
C35_DeltaReconstructsNew ==
    ppc \in {"delta", "hash"} =>
        LET rebuilt == Reconstructed(p_old.products, p_delta)
        IN /\ {e.id : e \in rebuilt} = Ids(p_new.products)
           /\ Cardinality(rebuilt) = Len(p_new.products)
           /\ \A e \in rebuilt :
                 SameRecord(e.rec, RecOf(p_new.products, e.id))

\* C35 witness: compute_delta has returned a delta with one removed and
\* one modified product; the new mapping holds the modified product alone.
C35_Witness ==
    /\ ppc = "delta"
    /\ Len(p_delta.removed) = 1
    /\ Len(p_delta.modified) = 1
    /\ p_delta.added = <<>>
    /\ Len(p_old.products) = 2
    /\ Len(p_new.products) = 1
    /\ p_new.products[1].rec = p_delta.modified[1].new

====
